---- MODULE Spec2Model ----
(***************************************************************************)
(* The store engine of src/src/compose.js (createStore, lines 64-328):     *)
(* dispatch, subscribe/unsubscribe, getState, replaceReducer and the       *)
(* observable of lines 282-313, with the reentrancy guard and the          *)
(* copy-on-write listener arrays.  The program is synchronous; reducers    *)
(* and listeners are caller-supplied code that may call back into the      *)
(* store, so the model keeps the call stack.                               *)
(***************************************************************************)
EXTENDS Integers, Sequences, FiniteSets, TLC

VARIABLES
  reducer,           \* createStore argument (line 64)
  preloadedState,    \* createStore argument (line 64)
  currentReducer,    \* line 83
  currentState,      \* line 85
  currentListeners,  \* line 87: a reference into heap
  nextListeners,     \* line 89: a reference into heap
  isDispatching,     \* line 90
  heap,              \* the listener arrays, by reference
  handles,           \* the closures returned by subscribe (lines 158-180), with
                     \* the passes they were registered and removed in
  stack,             \* the call stack: dispatch and listener activations
  constructed,       \* createStore has returned the store (line 321)
  result,            \* the store operation called or ended last, and its outcome
  ops,               \* number of store operations called so far
  log,               \* the actions dispatch accepted, in order
  flags,             \* what has happened: reducerFailed, listenerFailed, replaced
  passCount,         \* number of notification passes started
  reducerCalls,      \* number of reducer invocations
  notified,          \* number of listener invocations
  lastPass,          \* the notification pass that completed last
  lastFail,          \* the notification pass a listener failure aborted last
  sinceCommit,       \* the listeners invoked since the state was committed last
  seen,              \* the values the observer's next was called with, in order
  funcs,             \* compose's arguments (line 14)
  composeArgs,       \* the arguments the function compose returned is called with
  composed,          \* the function compose returned
  callStep,          \* how many of funcs the composed function has called
  callValue,         \* the value returned by the function called last
  callLog            \* the functions called, in order, each with its argument count

vars == <<reducer, preloadedState, currentReducer, currentState, currentListeners,
          nextListeners, isDispatching, heap, handles, stack, constructed,
          result, ops, log, flags, passCount, reducerCalls, notified,
          lastPass, lastFail, sinceCommit, seen, funcs, composeArgs,
          composed, callStep, callValue, callLog>>

storeVars == <<currentReducer, currentState, currentListeners, nextListeners,
               isDispatching, heap, handles>>

----------------------------------------------------------------------------
(* Bounds of the model *)

MaxOps == 4      \* store operations called in one behaviour
MaxNest == 2     \* dispatch activations on the stack at once
MaxSubs == 3     \* subscribe calls that registered a listener
MaxFuncs == 3    \* functions given to compose
MaxArity == 2    \* arguments the composed function is called with

----------------------------------------------------------------------------
(* Values *)

\* JavaScript's undefined as a state value (states are naturals otherwise)
Undefined == -1

\* the reducers a caller may supply to createStore
Reducers == {"count", "strict"}

\* the values a caller may pass to replaceReducer: a reducer, and a value that
\* is not a function
ReducerValues == {"strict", "notAFunction"}

\* the listeners a caller may supply, and a value that is not a function
ListenerFns == {"f", "g"}
ListenerValues == ListenerFns \cup {"notAFunction"}

\* the observers a caller may pass to the observable's subscribe: obs has a
\* next, which records its argument and is caller code like a listener;
\* obsNoNext is {}, and notAnObject is a number
Observers == {"obs", "obsNoNext"}
ObserverValues == Observers \cup {"notAnObject"}

\* line 299: observer.next is truthy
HasNext(o) == o = "obs"

\* the action objects a caller may dispatch: two records with a type, a
\* record without a type field, and an array
WellFormedActions == {"aInc", "aDbl"}
MalformedActions == {"aNoType", "aArray"}
UserActions == WellFormedActions \cup MalformedActions

\* the reserved action types of ./utils/actionTypes
InitType == "@@redux/INIT"
ReplaceType == "@@redux/REPLACE"

\* what kind of value an action is
ActionKind(a) == IF a = "aArray" THEN "array" ELSE "object"

\* action.type
ActionType(a) ==
  CASE a = "aInc" -> "INC"
    [] a = "aDbl" -> "DBL"
    [] a = "aInit" -> InitType
    [] a = "aReplace" -> ReplaceType
    [] OTHER -> "undefined"

\* ./utils/isPlainObject: a record whose prototype chain is the base-object
\* prototype or absent; arrays, callables and class instances are not
isPlainObject(a) == ActionKind(a) \in {"object", "nullProto"}

\* the reducer strict fails on a DBL action; count never fails
ReducerThrows(r, t) == r = "strict" /\ t = "DBL"

\* the reducers as functions: count is the counter of the spec's scenario,
\* which also doubles on DBL, so that the order of actions matters; strict
\* counts in steps of two from 1 and adds 5 when it is put in by replaceReducer
Apply(r, s, t) ==
  IF r = "count"
  THEN LET base == IF s = Undefined THEN 0 ELSE s
       IN CASE t = "INC" -> base + 1
            [] t = "DBL" -> base * 2
            [] OTHER -> base
  ELSE LET base == IF s = Undefined THEN 1 ELSE s
       IN CASE t = "INC" -> base + 2
            [] t = ReplaceType -> base + 5
            [] OTHER -> base

----------------------------------------------------------------------------
(* Arrays *)

\* Array.prototype.indexOf: 0-based, -1 when absent
IndexOf(s, x) ==
  IF \E k \in 1..Len(s) : s[k] = x
  THEN (CHOOSE k \in 1..Len(s) : s[k] = x /\ \A j \in 1..(k-1) : s[j] # x) - 1
  ELSE -1

\* Array.prototype.splice(index, 1): a negative index counts from the end
Splice1(s, index) ==
  LET start == IF index < 0
               THEN (IF Len(s) + index < 0 THEN 0 ELSE Len(s) + index)
               ELSE (IF index > Len(s) THEN Len(s) ELSE index)
  IN [k \in 1..(IF start < Len(s) THEN Len(s) - 1 ELSE Len(s)) |->
        IF k <= start THEN s[k] ELSE s[k + 1]]

\* number of occurrences of x in s
Count(s, x) == Cardinality({k \in 1..Len(s) : s[k] = x})

----------------------------------------------------------------------------
(* The call stack *)

Top == stack[Len(stack)]

NoFrame ==
  [kind |-> "none", pc |-> "none", action |-> "none", given |-> "none",
   via |-> "none", red |-> "none", arg |-> 0, listeners |-> 0, i |-> 0,
   fn |-> "none", err |-> FALSE, id |-> 0, snap |-> <<>>, liveH |-> {},
   invoked |-> <<>>]

\* variant: the reducer is always given the preloaded state
ReducerArgPreloaded == preloadedState

\* the reducer argument of line 236
ReducerArg == currentState

\* dispatch past its checks: the activation that is running the reducer
DispatchFrame(a, via, red, given) ==
  [NoFrame EXCEPT !.kind = "dispatch", !.pc = "reduce", !.action = a,
                  !.given = given, !.via = via, !.red = red, !.arg = ReducerArg]

\* one listener invocation of line 245
ListenerFrame(f) == [NoFrame EXCEPT !.kind = "listener", !.pc = "run", !.fn = f]

\* lines 300 and 304: the observable's subscribe is running observer.next,
\* before the registration of line 305
ObserveFrame(o) == [NoFrame EXCEPT !.kind = "observe", !.pc = "next", !.fn = o]

InReducer == stack # <<>> /\ Top.kind = "dispatch" /\ Top.pc = "reduce"
InObserverNext == stack # <<>> /\ Top.kind = "observe"
InListener == stack # <<>> /\ Top.kind = "listener"
InNotify == stack # <<>> /\ Top.kind = "dispatch" /\ Top.pc = "notify"

\* number of dispatch activations on the stack
Nesting == Cardinality({k \in 1..Len(stack) : stack[k].kind = "dispatch"})

\* the notification pass being run by the innermost dispatch, 0 if none
InnermostPass ==
  IF \E k \in 1..Len(stack) : stack[k].pc = "notify"
  THEN stack[CHOOSE k \in 1..Len(stack) :
               stack[k].pc = "notify" /\ \A j \in (k+1)..Len(stack) : stack[j].pc # "notify"].id
  ELSE 0

IsError(status) == status # "ok"

\* the outcome of a store operation: the operation, its argument (an action,
\* a listener or a reducer; handle for an unsubscribe handle), how it ended,
\* and what it returned (value: an action; handle: a handle; state: a state)
Res(op, arg, status) ==
  [op |-> op, arg |-> arg, handle |-> 0, status |-> status, value |-> "none",
   state |-> Undefined]

\* an operation ends: its caller gets the outcome; err records that a store
\* operation called by this reducer or listener invocation threw, which the
\* caller code catches or propagates
Deliver(stk, res) ==
  /\ result' = res
  /\ stack' = IF stk = <<>> \/ ~IsError(res.status)
              THEN stk
              ELSE [stk EXCEPT ![Len(stk)].err = TRUE]

\* caller code is running and may call a store operation
CanCall ==
  /\ constructed
  /\ \/ stack = <<>>
     \/ InListener /\ Top.pc = "run"
     \/ InReducer
     \/ InObserverNext

\* the call is counted
Called == ops < MaxOps /\ ops' = ops + 1

----------------------------------------------------------------------------
(* createStore, lines 64-90 and 319-327 *)

\* the state of compose, which no store operation touches
composeVars == <<funcs, composeArgs, composed, callStep, callValue, callLog>>

\* createStore's arguments, and what else the store's operations leave alone
args == <<reducer, preloadedState, composeVars>>
hist == <<log, flags, passCount, reducerCalls, notified, lastPass, lastFail,
          sinceCommit, seen>>

NoPass == [id |-> 0, snap |-> <<>>, liveH |-> {}, invoked |-> <<>>, at |-> 0]

PreloadedStates == {Undefined, 3}

\* compose has not been called
NotComposed == [kind |-> "none", fn |-> "none"]

ComposeIdle ==
  /\ funcs = <<>>
  /\ composeArgs = <<>>
  /\ composed = NotComposed
  /\ callStep = 0
  /\ callValue = 0
  /\ callLog = <<>>

\* lines 83-90: the store's fields before the INIT dispatch of line 319
StoreInit ==
  /\ reducer \in Reducers
  /\ preloadedState \in PreloadedStates
  /\ currentReducer = reducer
  /\ currentState = preloadedState
  /\ heap = << <<>> >>
  /\ currentListeners = 1
  /\ nextListeners = 1
  /\ isDispatching = FALSE
  /\ handles = <<>>
  /\ stack = <<>>
  /\ constructed = FALSE
  /\ result = Res("none", "none", "ok")
  /\ ops = 0
  /\ log = <<>>
  /\ flags = {}
  /\ passCount = 0
  /\ reducerCalls = 0
  /\ notified = 0
  /\ lastPass = NoPass
  /\ lastFail = NoPass
  /\ sinceCommit = {}
  /\ seen = <<>>

Init == StoreInit /\ ComposeIdle

----------------------------------------------------------------------------
(* getState, lines 104-114 *)

\* variant: getState returns the state the store was created with
GetStateValueInitial == preloadedState

\* line 113: the value getState returns
GetStateValue == currentState

\* lines 104-114
GetState ==
  /\ CanCall
  /\ Called
  /\ Deliver(stack, IF isDispatching
                    THEN Res("getState", "none", "ReentrancyError")
                    ELSE [Res("getState", "none", "ok") EXCEPT !.state = GetStateValue])
  /\ UNCHANGED <<args, storeVars, constructed, hist>>

----------------------------------------------------------------------------
(* dispatch, lines 211-249 *)

\* variant: dispatch without the guard of lines 228-230
DispatchCheckNoGuard(a) ==
  IF ~isPlainObject(a) THEN "InvalidActionError"
  ELSE IF ActionType(a) = "undefined" THEN "InvalidActionError"
  ELSE "ok"

\* variant: dispatch without the type check of lines 220-225
DispatchCheckNoType(a) ==
  IF ~isPlainObject(a) THEN "InvalidActionError"
  ELSE IF isDispatching THEN "ReentrancyError"
  ELSE "ok"

\* lines 213-230: the checks of dispatch, in the order of the code
DispatchCheck(a) ==
  IF ~isPlainObject(a) THEN "InvalidActionError"
  ELSE IF ActionType(a) = "undefined" THEN "InvalidActionError"
  ELSE IF isDispatching THEN "ReentrancyError"
  ELSE "ok"

\* lines 211-236: dispatch(a) up to the call of the reducer
DispatchEnter(a, via, red, arg) ==
  LET st == DispatchCheck(a)
  IN IF st # "ok"
     THEN /\ Deliver(stack, Res(via, arg, st))
          /\ UNCHANGED <<isDispatching, log, reducerCalls>>
     ELSE /\ isDispatching' = TRUE
          /\ stack' = Append(stack, DispatchFrame(a, via, red, arg))
          /\ result' = Res(via, arg, "pending")
          /\ log' = Append(log, a)
          /\ reducerCalls' = reducerCalls + 1

\* variant: createStore dispatches an ordinary action
InitActionOrdinary == "aInc"

\* line 319: the action object { type: ActionTypes.INIT }
InitAction == "aInit"

\* line 319: the INIT dispatch of createStore
CreateStore ==
  /\ ~constructed /\ stack = <<>> /\ reducerCalls = 0
  /\ DispatchEnter(InitAction, "createStore", currentReducer, "none")
  /\ UNCHANGED <<args, currentReducer, currentState, currentListeners, nextListeners,
                 heap, handles, constructed, ops, flags, passCount, notified,
                 lastPass, lastFail, sinceCommit, seen>>

\* store.dispatch(a) called by the application, a listener or a reducer
Dispatch(a) ==
  /\ CanCall
  /\ DispatchCheck(a) = "ok" => Nesting < MaxNest
  /\ Called
  /\ DispatchEnter(a, "dispatch", currentReducer, a)
  /\ UNCHANGED <<args, currentReducer, currentState, currentListeners, nextListeners,
                 heap, handles, constructed, flags, passCount, notified, lastPass,
                 lastFail, sinceCommit, seen>>

\* variant: no finally block, the guard stays set when the reducer throws
ReleaseOnThrowMissing == TRUE

\* lines 237-239: the guard after the reducer threw
ReleaseOnThrow == FALSE

\* variant: the reducer's return value is dropped
CommitStateLost(f) == f.arg

\* variant: the state committed is the output of the reducer stored now
CommitStateOfStored(f) == Apply(currentReducer, f.arg, ActionType(f.action))

\* line 236: the state the reducer's return value becomes
CommitState(f) == Apply(f.red, f.arg, ActionType(f.action))

\* variant: the pass iterates the previous snapshot
NotifySnapshotStale == currentListeners

\* line 242: the array the notification pass iterates
NotifySnapshot == nextListeners

\* the handles whose listener is subscribed
Live == {h \in 1..Len(handles) : handles[h].isSubscribed}

\* lines 236-242: the reducer returns or throws
ReducerReturn ==
  /\ InReducer
  /\ IF ReducerThrows(Top.red, ActionType(Top.action))
     THEN /\ isDispatching' = ReleaseOnThrow
          /\ Deliver(SubSeq(stack, 1, Len(stack) - 1),
                     Res(Top.via, Top.given, "ReducerError"))
          /\ flags' = flags \cup {"reducerFailed"}
          /\ UNCHANGED <<currentState, currentListeners, passCount, sinceCommit>>
     ELSE /\ currentState' = CommitState(Top)
          /\ isDispatching' = FALSE
          /\ currentListeners' = NotifySnapshot
          /\ passCount' = passCount + 1
          /\ sinceCommit' = {}
          /\ stack' = [stack EXCEPT ![Len(stack)] =
                         [@ EXCEPT !.pc = "notify", !.listeners = NotifySnapshot,
                                   !.i = 0, !.id = passCount + 1,
                                   !.snap = heap[NotifySnapshot], !.liveH = Live]]
          /\ UNCHANGED <<result, flags>>
  /\ UNCHANGED <<args, currentReducer, nextListeners, heap, handles, constructed,
                 ops, log, reducerCalls, notified, lastPass, lastFail, seen>>

\* the reducer lets the exception of a store operation it called propagate:
\* it fails (lines 237-239)
ReducerPropagate ==
  /\ InReducer /\ Top.err
  /\ isDispatching' = ReleaseOnThrow
  /\ Deliver(SubSeq(stack, 1, Len(stack) - 1),
             Res(Top.via, Top.given, "ReducerError"))
  /\ flags' = flags \cup {"reducerFailed"}
  /\ UNCHANGED <<args, currentReducer, currentState, currentListeners, nextListeners,
                 heap, handles, constructed, ops, log, passCount, reducerCalls,
                 notified, lastPass, lastFail, sinceCommit, seen>>

\* variant: the loop reads the store's currentListeners at every iteration
IteratedArrayShared(F) == currentListeners

\* lines 242-244: the loop reads the activation's own constant listeners
IteratedArray(F) == F.listeners

\* line 243: listeners.length, read at every iteration
LoopBound(F) == Len(heap[IteratedArray(F)])

\* the observer whose observeState closure (lines 298-302) the listener l is;
\* none for a listener given to store.subscribe
ObserverOf(l) ==
  IF \E h \in 1..Len(handles) : handles[h].listener = l
  THEN handles[CHOOSE h \in 1..Len(handles) : handles[h].listener = l].observer
  ELSE "none"

\* lines 298-301: observeState() for observer o up to the call of o.next:
\* when o has a next, getState() (which throws while a reducer is running,
\* lines 105-111) and then o.next is called with the state
ObserveState(o) ==
  IF ~HasNext(o) THEN [status |-> "ok", seen |-> seen]
  ELSE IF isDispatching THEN [status |-> "ReentrancyError", seen |-> seen]
  ELSE [status |-> "ok", seen |-> Append(seen, GetStateValue)]

\* what the listener just called is doing: caller code (a listener given to
\* store.subscribe, or observer.next called by observeState) is running; an
\* observeState closure whose observer has no next is done; one whose
\* getState threw has failed
ListenerPc(l) ==
  IF ObserverOf(l) = "none" THEN "run"
  ELSE IF IsError(ObserveState(ObserverOf(l)).status) THEN "failed"
  ELSE IF HasNext(ObserverOf(l)) THEN "run"
  ELSE "done"

\* lines 243-245: the pass calls its next listener
InvokeListener ==
  /\ InNotify /\ Top.i < LoopBound(Top)
  /\ LET listener == heap[IteratedArray(Top)][Top.i + 1]
         run == ObserveState(ObserverOf(listener))
     IN /\ stack' = Append([stack EXCEPT ![Len(stack)].invoked = Append(@, listener)],
                           [ListenerFrame(listener) EXCEPT
                              !.pc = ListenerPc(listener)])
        /\ sinceCommit' = sinceCommit \cup {listener}
        /\ seen' = run.seen
  /\ notified' = notified + 1
  /\ UNCHANGED <<args, storeVars, constructed, result, ops, log, flags,
                 passCount, reducerCalls, lastPass, lastFail>>

\* line 243: the listener returned, i++
ListenerReturn ==
  /\ InListener /\ Top.pc \in {"run", "done"}
  /\ stack' = [SubSeq(stack, 1, Len(stack) - 1) EXCEPT ![Len(stack) - 1].i = @ + 1]
  /\ UNCHANGED <<args, storeVars, constructed, result, ops, hist>>

\* the listener fails, of its own or by propagating: nothing in lines 243-246
\* catches it, so dispatch (and replaceReducer around it) ends with it
ListenerThrow ==
  /\ InListener /\ Top.pc \in {"run", "failed"}
  /\ LET d == stack[Len(stack) - 1]
     IN /\ Deliver(SubSeq(stack, 1, Len(stack) - 2),
                   Res(d.via, d.given, "ListenerError"))
        /\ lastFail' = [id |-> d.id, snap |-> d.snap, liveH |-> d.liveH,
                        invoked |-> d.invoked, at |-> d.i + 1]
  /\ flags' = flags \cup {"listenerFailed"}
  /\ UNCHANGED <<args, storeVars, constructed, ops, log, passCount,
                 reducerCalls, notified, lastPass, sinceCommit, seen>>

\* variant: dispatch returns a copy of the action
DispatchReturnCopy(f) == "aCopy"

\* line 248: the value dispatch returns
DispatchReturnValue(f) == f.action

\* lines 243 and 248: the loop ends and dispatch returns
DispatchReturn ==
  /\ InNotify /\ Top.i >= LoopBound(Top)
  /\ lastPass' = [id |-> Top.id, snap |-> Top.snap, liveH |-> Top.liveH,
                  invoked |-> Top.invoked, at |-> 0]
  /\ IF Top.via = "createStore"
     THEN /\ constructed' = TRUE
          /\ stack' = SubSeq(stack, 1, Len(stack) - 1)
          /\ result' = Res("createStore", "none", "ok")
     ELSE /\ Deliver(SubSeq(stack, 1, Len(stack) - 1),
                     [Res(Top.via, Top.given, "ok") EXCEPT
                        !.value = IF Top.via = "dispatch"
                                  THEN DispatchReturnValue(Top)
                                  ELSE "undefined"])
          /\ UNCHANGED constructed
  /\ UNCHANGED <<args, storeVars, ops, log, flags, passCount, reducerCalls,
                 notified, lastFail, sinceCommit, seen>>

----------------------------------------------------------------------------
(* subscribe and its unsubscribe handle, lines 144-181 *)

\* variant: nextListeners is never copied
ensureNothing(h, cur, nxt) == [heap |-> h, next |-> nxt]

\* lines 93-97: the arrays and nextListeners after ensureCanMutateNextListeners();
\* slice() allocates a new array
ensureCanMutateNextListeners(h, cur, nxt) ==
  IF nxt = cur
  THEN [heap |-> Append(h, h[cur]), next |-> Len(h) + 1]
  ELSE [heap |-> h, next |-> nxt]

\* variant: subscribe pushes onto nextListeners without the call of line 160
SubscribeArraysInPlace == [heap |-> heap, next |-> nextListeners]

\* line 160: the call in subscribe
SubscribeArrays == ensureCanMutateNextListeners(heap, currentListeners, nextListeners)

\* variant: unsubscribe splices nextListeners without the call of line 177
UnsubscribeArraysInPlace == [heap |-> heap, next |-> nextListeners]

\* line 177: the call in unsubscribe
UnsubscribeArrays == ensureCanMutateNextListeners(heap, currentListeners, nextListeners)

\* lines 145-156: the checks of subscribe, in the order of the code
SubscribeCheck(l) ==
  IF l = "notAFunction" THEN "ConfigurationError"
  ELSE IF isDispatching THEN "ReentrancyError"
  ELSE "ok"

\* lines 158-163: subscribe past its checks pushes listener l and returns the
\* handle; o is the observer when l is an observeState closure, res the
\* outcome the caller, whose activation is the top of stk, gets
SubscribeListener(stk, l, o, res) ==
  LET e == SubscribeArrays
  IN /\ nextListeners' = e.next
     /\ heap' = [e.heap EXCEPT ![e.next] = Append(@, l)]
     /\ handles' = Append(handles,
                          [listener |-> l, isSubscribed |-> TRUE,
                           regPass |-> InnermostPass, unsubAt |-> 0,
                           unsubIn |-> 0, observer |-> o])
     /\ Deliver(stk, [res EXCEPT !.handle = Len(handles) + 1])

\* lines 144-163
Subscribe(l) ==
  /\ CanCall
  /\ Len(handles) < MaxSubs
  /\ Called
  /\ IF SubscribeCheck(l) # "ok"
     THEN /\ Deliver(stack, Res("subscribe", l, SubscribeCheck(l)))
          /\ UNCHANGED <<nextListeners, heap, handles>>
     ELSE SubscribeListener(stack, l, "none", Res("subscribe", l, "ok"))
  /\ UNCHANGED <<args, currentReducer, currentState, currentListeners, isDispatching,
                 constructed, hist>>

\* variant: the handle without the guard of lines 168-173
UnsubscribeCheckNoGuard(h) ==
  IF ~handles[h].isSubscribed THEN "noop" ELSE "ok"

\* variant: the handle without the isSubscribed flag of lines 164-166
UnsubscribeCheckNoFlag(h) ==
  IF isDispatching THEN "ReentrancyError" ELSE "ok"

\* lines 164-173: the checks of an unsubscribe handle, in the order of the code
UnsubscribeCheck(h) ==
  IF ~handles[h].isSubscribed THEN "noop"
  ELSE IF isDispatching THEN "ReentrancyError"
  ELSE "ok"

\* lines 178-179: the listener array after the removal
RemoveListener(s, l) == Splice1(s, IndexOf(s, l))

\* lines 163-180: the handle subscribe returned as handles[h]
Unsubscribe(h) ==
  /\ CanCall
  /\ h \in 1..Len(handles)
  /\ Called
  /\ CASE UnsubscribeCheck(h) = "noop" ->
            /\ Deliver(stack, [Res("unsubscribe", "none", "ok") EXCEPT !.handle = h])
            /\ UNCHANGED <<nextListeners, heap, handles>>
       [] UnsubscribeCheck(h) = "ReentrancyError" ->
            /\ Deliver(stack, [Res("unsubscribe", "none", "ReentrancyError") EXCEPT
                                 !.handle = h])
            /\ UNCHANGED <<nextListeners, heap, handles>>
       [] OTHER ->
            LET e == UnsubscribeArrays
            IN /\ handles' = [handles EXCEPT ![h].isSubscribed = FALSE,
                                             ![h].unsubAt = passCount,
                                             ![h].unsubIn = InnermostPass]
               /\ nextListeners' = e.next
               /\ heap' = [e.heap EXCEPT ![e.next] =
                             RemoveListener(@, handles[h].listener)]
               /\ Deliver(stack, [Res("unsubscribe", "none", "ok") EXCEPT !.handle = h])
  /\ UNCHANGED <<args, currentReducer, currentState, currentListeners, isDispatching,
                 constructed, hist>>

----------------------------------------------------------------------------
(* observable, lines 282-313 *)

\* line 298: the observeState closure a call of the observable's subscribe
\* creates; every call creates a new function, named by the handle it gets
ObserveStateFn(h) == "observeState" \o ToString(h)

\* the calls of the observable's subscribe that are running observer.next
PendingObservers == Cardinality({k \in 1..Len(stack) : stack[k].kind = "observe"})

\* lines 294-304: store[$$observable]().subscribe(o) up to the call of
\* observer.next: the check of the observer, then observeState(); "next" when
\* observer.next is called, else how the call goes on
ObservableCheck(o) ==
  IF o \notin Observers THEN "TypeError"
  ELSE IF IsError(ObserveState(o).status) THEN ObserveState(o).status
  ELSE IF HasNext(o) THEN "next"
  ELSE SubscribeCheck(ObserveStateFn(Len(handles) + 1))

\* lines 293-304: store[$$observable]().subscribe(o) is called; with an
\* observer that has a next it calls observer.next(getState()), with one
\* that has none it goes on to line 305 at once
ObservableSubscribe(o) ==
  /\ CanCall
  /\ Len(handles) + PendingObservers < MaxSubs
  /\ Called
  /\ CASE ObservableCheck(o) = "next" ->
            /\ seen' = ObserveState(o).seen
            /\ stack' = Append(stack, ObserveFrame(o))
            /\ result' = Res("observe", o, "pending")
            /\ UNCHANGED <<nextListeners, heap, handles>>
       [] ObservableCheck(o) = "ok" ->
            /\ SubscribeListener(stack, ObserveStateFn(Len(handles) + 1), o,
                                 Res("observe", o, "ok"))
            /\ UNCHANGED seen
       [] OTHER ->
            /\ Deliver(stack, Res("observe", o, ObservableCheck(o)))
            /\ UNCHANGED <<nextListeners, heap, handles, seen>>
  /\ UNCHANGED <<args, currentReducer, currentState, currentListeners, isDispatching,
                 constructed, log, flags, passCount, reducerCalls, notified,
                 lastPass, lastFail, sinceCommit>>

\* lines 304-306: observer.next returned; outerSubscribe(observeState)
\* registers the closure and the subscription is returned
ObserverReturn ==
  /\ InObserverNext
  /\ LET caller == SubSeq(stack, 1, Len(stack) - 1)
         l == ObserveStateFn(Len(handles) + 1)
     IN IF SubscribeCheck(l) # "ok"
        THEN /\ Deliver(caller, Res("observe", Top.fn, SubscribeCheck(l)))
             /\ UNCHANGED <<nextListeners, heap, handles>>
        ELSE SubscribeListener(caller, l, Top.fn, Res("observe", Top.fn, "ok"))
  /\ UNCHANGED <<args, currentReducer, currentState, currentListeners, isDispatching,
                 constructed, ops, hist>>

\* observer.next fails, of its own or by propagating: nothing in lines
\* 298-305 catches it, so the observable's subscribe ends with it and
\* registers nothing
ObserverThrow ==
  /\ InObserverNext
  /\ Deliver(SubSeq(stack, 1, Len(stack) - 1), Res("observe", Top.fn, "ObserverError"))
  /\ UNCHANGED <<args, storeVars, constructed, ops, hist>>

----------------------------------------------------------------------------
(* replaceReducer, lines 266-273 *)

\* variant: replaceReducer keeps the reducer it had
ReplacedReducerKept(r) == currentReducer

\* line 270: the reducer replaceReducer(r) stores
ReplacedReducer(r) == r

\* lines 266-273
ReplaceReducer(r) ==
  /\ CanCall
  /\ (r \in Reducers /\ ~isDispatching) => Nesting < MaxNest
  /\ Called
  /\ IF r \notin Reducers
     THEN /\ Deliver(stack, Res("replaceReducer", r, "ConfigurationError"))
          /\ UNCHANGED <<currentReducer, isDispatching, log, reducerCalls, flags>>
     ELSE /\ currentReducer' = ReplacedReducer(r)
          /\ flags' = flags \cup {"replaced"}
          /\ DispatchEnter("aReplace", "replaceReducer", ReplacedReducer(r), r)
  /\ UNCHANGED <<args, currentState, currentListeners, nextListeners, heap, handles,
                 constructed, passCount, notified, lastPass, lastFail, sinceCommit,
                 seen>>

----------------------------------------------------------------------------

Next ==
  \/ CreateStore
  \/ \E a \in UserActions : Dispatch(a)
  \/ ReducerReturn
  \/ ReducerPropagate
  \/ InvokeListener
  \/ ListenerReturn
  \/ ListenerThrow
  \/ DispatchReturn
  \/ GetState
  \/ \E l \in ListenerValues : Subscribe(l)
  \/ \E h \in 1..MaxSubs : Unsubscribe(h)
  \/ \E o \in ObserverValues : ObservableSubscribe(o)
  \/ ObserverReturn
  \/ ObserverThrow
  \/ \E r \in ReducerValues : ReplaceReducer(r)

Spec == Init /\ [][Next]_vars

----------------------------------------------------------------------------
(* compose, lines 14-24 *)

\* the functions a caller may compose: inc and dbl take one argument and
\* ignore the others, sum adds all its arguments, cnt counts them
FuncNames == {"inc", "dbl", "sum", "cnt"}

ArgValues == {1, 2}

RECURSIVE SumOf(_)
SumOf(as) == IF as = <<>> THEN 0 ELSE Head(as) + SumOf(Tail(as))

\* f(...as)
ApplyFn(f, as) ==
  CASE f = "inc" -> as[1] + 1
    [] f = "dbl" -> as[1] * 2
    [] f = "sum" -> SumOf(as)
    [] f = "cnt" -> Len(as)

FuncLists == UNION {[1..n -> FuncNames] : n \in 0..MaxFuncs}
ArgLists == UNION {[1..n -> ArgValues] : n \in 1..MaxArity}

\* lines 15-23: what compose(...fs) returns: arg => arg, the one function
\* given, or the closure built by reduce
ComposeResult(fs) ==
  IF Len(fs) = 0 THEN [kind |-> "identity", fn |-> "none"]
  ELSE IF Len(fs) = 1 THEN [kind |-> "given", fn |-> fs[1]]
  ELSE [kind |-> "reduced", fn |-> "none"]

\* variant: the closures call the left function first
CallOrderLeftFirst(n) == [k \in 1..n |-> k]

\* line 23: (...args) => a(b(...args)) calls b, the function to the right,
\* before a: unfolded, the k-th function called is funcs[n - k + 1]
CallOrder(n) == [k \in 1..n |-> n - k + 1]

\* line 23: a receives the one value b returned
PassedOn(v, as) == <<v>>

ComposeInit ==
  /\ StoreInit
  /\ reducer = "count" /\ preloadedState = Undefined
  /\ funcs \in FuncLists
  /\ composeArgs \in ArgLists
  /\ composed = NotComposed
  /\ callStep = 0
  /\ callValue = 0
  /\ callLog = <<>>

\* compose(...funcs)
Compose ==
  /\ composed = NotComposed
  /\ composed' = ComposeResult(funcs)
  /\ UNCHANGED <<reducer, preloadedState, funcs, composeArgs, callStep, callValue,
                 callLog, storeVars, stack, constructed, result, ops, hist>>

\* the returned function is called with composeArgs: the identity returns
\* its first argument, any other calls the first function of its order
CallComposed ==
  /\ composed # NotComposed /\ callStep = 0 /\ callLog = <<>>
  /\ IF composed.kind = "identity"
     THEN /\ callValue' = composeArgs[1]
          /\ callStep' = 1
          /\ callLog' = callLog
     ELSE LET f == IF composed.kind = "given" THEN composed.fn
                   ELSE funcs[CallOrder(Len(funcs))[1]]
          IN /\ callValue' = ApplyFn(f, composeArgs)
             /\ callStep' = 1
             /\ callLog' = <<[fn |-> f, nargs |-> Len(composeArgs)]>>
  /\ UNCHANGED <<reducer, preloadedState, funcs, composeArgs, composed,
                 storeVars, stack, constructed, result, ops, hist>>

\* the closure around the function that returned calls its left function
CallOuter ==
  /\ composed.kind = "reduced" /\ callStep >= 1 /\ callStep < Len(funcs)
  /\ LET f == funcs[CallOrder(Len(funcs))[callStep + 1]]
         as == PassedOn(callValue, composeArgs)
     IN /\ callValue' = ApplyFn(f, as)
        /\ callLog' = Append(callLog, [fn |-> f, nargs |-> Len(as)])
  /\ callStep' = callStep + 1
  /\ UNCHANGED <<reducer, preloadedState, funcs, composeArgs, composed,
                 storeVars, stack, constructed, result, ops, hist>>

ComposeNext ==
  \/ Compose
  \/ CallComposed
  \/ CallOuter

ComposeSpec == ComposeInit /\ [][ComposeNext]_vars

----------------------------------------------------------------------------
(* Properties *)

\* a store operation is called in this step
CallStep == ops' = ops + 1

\* the guard is set exactly while a reducer invocation is running, and only
\* the innermost activation can be running a reducer
GuardMatchesReducer ==
  /\ isDispatching <=> InReducer
  /\ \A k \in 1..Len(stack) : stack[k].pc = "reduce" => k = Len(stack)

\* the left fold of reducer r over the action objects as, from state s
RECURSIVE Fold(_, _, _)
Fold(r, s, as) ==
  IF as = <<>> THEN s
  ELSE Fold(r, Apply(r, s, ActionType(Head(as))), Tail(as))

\* C1: while no reducer has failed, no listener has failed and the reducer
\* has not been replaced, the state outside a reducer invocation is the left
\* fold of the reducer over the dispatched actions, starting from the state
\* the reducer made of the preloaded state and the INIT action.
C1_StateIsFold ==
  (constructed /\ ~isDispatching /\ flags = {})
    => currentState = Fold(reducer, Apply(reducer, preloadedState, InitType), Tail(log))

\* three actions have been folded, in an order that matters
C1_Witness ==
  /\ constructed /\ stack = <<>> /\ flags = {}
  /\ reducer = "count" /\ preloadedState = Undefined
  /\ log = <<"aInit", "aInc", "aDbl", "aInc">>
  /\ currentState = 3

\* C2: dispatch of a well-formed action called while a reducer is executing
\* fails with ReentrancyError: no reducer invocation, no state change, no
\* notification, no new activation, the guard stays set; reducer invocations
\* never overlap.
C2_NestedDispatchStep ==
  (CallStep /\ isDispatching /\ result'.op = "dispatch"
     /\ result'.arg \in WellFormedActions)
    => /\ result'.status = "ReentrancyError"
       /\ reducerCalls' = reducerCalls
       /\ currentState' = currentState
       /\ notified' = notified
       /\ passCount' = passCount
       /\ isDispatching'
       /\ Len(stack') = Len(stack)

C2_ReducerMayNotDispatch == [][C2_NestedDispatchStep /\ GuardMatchesReducer']_vars

\* a reducer has called dispatch and is still running
C2_Witness ==
  /\ InReducer
  /\ result.op = "dispatch" /\ result.status = "ReentrancyError"
  /\ result.arg \in WellFormedActions

\* the listener arrays and the state are as they were
ListsAndStateUnchanged ==
  /\ currentState' = currentState
  /\ currentListeners' = currentListeners
  /\ nextListeners' = nextListeners
  /\ heap' = heap

\* C3 as stated: while a reducer is executing, getState, subscribe of a
\* callable and every unsubscribe handle fail with ReentrancyError and leave
\* the state and both listener lists unchanged.
C3_AsStated ==
  [][(CallStep /\ isDispatching
        /\ \/ result'.op = "getState"
           \/ (result'.op = "subscribe" /\ result'.arg \in ListenerFns)
           \/ result'.op = "unsubscribe")
       => (result'.status = "ReentrancyError" /\ ListsAndStateUnchanged)]_vars

\* C3, amended: while a reducer is executing, getState, subscribe of a
\* callable and an unsubscribe handle whose listener is still subscribed fail
\* with ReentrancyError; a handle that was already called returns without
\* error; all of them leave the state and both listener lists unchanged.
C3_ReducerMayNotUseStore ==
  [][(CallStep /\ isDispatching
        /\ \/ result'.op = "getState"
           \/ (result'.op = "subscribe" /\ result'.arg \in ListenerFns)
           \/ result'.op = "unsubscribe")
       => /\ ListsAndStateUnchanged
          /\ handles' = handles
          /\ IF result'.op = "unsubscribe" /\ ~handles[result'.handle].isSubscribed
             THEN result'.status = "ok"
             ELSE result'.status = "ReentrancyError"]_vars

\* a reducer has called the handle of a subscribed listener
C3_Witness ==
  /\ InReducer
  /\ result.op = "unsubscribe" /\ result.status = "ReentrancyError"
  /\ handles[result.handle].isSubscribed

\* C4: when the reducer fails, the failure reaches the caller of dispatch,
\* the guard is released, the state is the one before the call, no listener
\* is invoked and no snapshot is taken; a store operation called outside a
\* reducer invocation never fails with ReentrancyError, and the guard is set
\* only inside a reducer invocation.
C4_ReducerFailureStep ==
  (InReducer /\ Len(stack') < Len(stack))
    => /\ result' = Res(Top.via, Top.given, "ReducerError")
       /\ ~isDispatching'
       /\ currentState' = currentState
       /\ currentState = Top.arg
       /\ notified' = notified
       /\ passCount' = passCount
       /\ currentListeners' = currentListeners
       /\ Len(stack') = Len(stack) - 1

C4_CallOutsideReducer ==
  (CallStep /\ ~InReducer) => result'.status # "ReentrancyError"

C4_GuardReleased ==
  [][C4_ReducerFailureStep /\ C4_CallOutsideReducer /\ GuardMatchesReducer']_vars

\* after a reducer failure, getState has succeeded
C4_Witness ==
  /\ "reducerFailed" \in flags
  /\ ~isDispatching
  /\ result.op = "getState" /\ result.status = "ok"

----------------------------------------------------------------------------
(* Notification passes *)

\* the registrations of listener l that were live when pass P took its snapshot
Registered(P, l) == Cardinality({h \in P.liveH : handles[h].listener = l})

\* the dispatch activations that are running their notification loop
NotifyFrames == {k \in 1..Len(stack) : stack[k].pc = "notify"}

\* C5: when a notification phase has run to its end, every listener that
\* was registered (subscribed and not unsubscribed) when the phase began has
\* been invoked by it exactly once per registration, whatever the listeners
\* subscribed, unsubscribed or dispatched meanwhile; a phase still running
\* has invoked no listener more often than that.
C5_RegisteredInvokedOnce ==
  /\ lastPass.id # 0
       => \A l \in ListenerFns : Count(lastPass.invoked, l) = Registered(lastPass, l)
  /\ \A k \in NotifyFrames :
       \A l \in ListenerFns : Count(stack[k].invoked, l) <= Registered(stack[k], l)

\* a phase has ended that invoked two registered listeners, one of which
\* was unsubscribed while the phase ran
C5_Witness ==
  /\ stack = <<>>
  /\ Cardinality(lastPass.liveH) = 2
  /\ Len(lastPass.invoked) = 2
  /\ \E h \in lastPass.liveH : handles[h].unsubIn = lastPass.id

\* the pass P does not go beyond its snapshot: the array it iterates has the
\* snapshot's length, and it has invoked a listener subscribed during it only
\* as often as that listener was registered before
NotInvokedInOwnPass(P, h) ==
  /\ Len(heap[P.listeners]) = Len(P.snap)
  /\ Count(P.invoked, handles[h].listener) <= Registered(P, handles[h].listener)

\* C6: a listener registered by subscribe while a notification pass is
\* running is not invoked during that pass; every later pass that runs to
\* its end while the listener is still subscribed invokes it.
C6_LateSubscriber ==
  \A h \in 1..Len(handles) :
    /\ \A k \in NotifyFrames :
         handles[h].regPass = stack[k].id => NotInvokedInOwnPass(stack[k], h)
    /\ (handles[h].regPass # 0 /\ lastPass.id = handles[h].regPass)
         => Count(lastPass.invoked, handles[h].listener)
              <= Registered(lastPass, handles[h].listener)
    /\ (handles[h].regPass # 0 /\ h \in lastPass.liveH)
         => /\ lastPass.id > handles[h].regPass
            /\ Count(lastPass.invoked, handles[h].listener)
                 = Registered(lastPass, handles[h].listener)
            /\ Count(lastPass.invoked, handles[h].listener) >= 1

\* listener 2 was subscribed by listener 1 during a pass that did not invoke
\* it, and a later pass has invoked it
C6_Witness ==
  /\ Len(handles) = 2
  /\ handles[1].listener # handles[2].listener
  /\ handles[2].regPass # 0
  /\ 2 \in lastPass.liveH
  /\ handles[2].listener = lastPass.invoked[Len(lastPass.invoked)]

\* the pass of activation F walks its snapshot: the array it iterates is
\* the snapshot, unchanged, and the listeners invoked are its first ones
WalksSnapshot(F) ==
  /\ heap[F.listeners] = F.snap
  /\ Len(F.invoked) \in {F.i, F.i + 1}
  /\ Len(F.invoked) <= Len(F.snap)
  /\ F.invoked = SubSeq(F.snap, 1, Len(F.invoked))

\* the snapshot of pass P holds the listener of handle h once per
\* registration that was live
SnapshotHasLive(P, h) ==
  Count(P.snap, handles[h].listener) = Registered(P, handles[h].listener)

\* C7: an unsubscribe handle called while a notification pass is running
\* affects only future passes: the running pass invokes the listeners of its
\* snapshot in order, none skipped and none twice, the unsubscribed one at
\* its position; a snapshot taken after the call no longer holds the
\* registration.
C7_UnsubscribeDuringPass ==
  /\ \A k \in NotifyFrames : WalksSnapshot(stack[k])
  /\ lastPass.invoked = lastPass.snap
  /\ \A h \in 1..Len(handles) :
       ~handles[h].isSubscribed =>
         /\ \A k \in NotifyFrames :
              stack[k].id > handles[h].unsubAt
                => (h \notin stack[k].liveH /\ SnapshotHasLive(stack[k], h))
         /\ lastPass.id > handles[h].unsubAt
              => (h \notin lastPass.liveH /\ SnapshotHasLive(lastPass, h))
         /\ (handles[h].unsubIn # 0 /\ lastPass.id = handles[h].unsubIn
               /\ h \in lastPass.liveH)
              => Count(lastPass.invoked, handles[h].listener) >= 1

\* a listener unsubscribed itself during a pass that had invoked it and then
\* dispatched: the nested pass, whose snapshot was taken after the call, has
\* ended without invoking it, and the outer pass is still running
C7_Witness ==
  /\ Len(handles) >= 1
  /\ ~handles[1].isSubscribed
  /\ \E k \in NotifyFrames :
       /\ handles[1].unsubIn = stack[k].id
       /\ stack[k].invoked = <<handles[1].listener>>
       /\ lastPass.id > stack[k].id
  /\ lastPass.id > handles[1].unsubAt
  /\ lastPass.invoked = <<>>

----------------------------------------------------------------------------
(* Rejected actions, failing listeners, the value of dispatch *)

\* C8: dispatch, called outside any reducer with an action that is not a
\* plain object or whose type is undefined, fails with InvalidActionError:
\* the reducer is not invoked, no listener is invoked, and the state, the
\* reducer, the guard and both listener arrays are unchanged.
C8_MalformedStep ==
  (CallStep /\ ~isDispatching /\ result'.op = "dispatch"
     /\ result'.arg \in MalformedActions)
    => /\ result'.status = "InvalidActionError"
       /\ reducerCalls' = reducerCalls
       /\ notified' = notified
       /\ passCount' = passCount
       /\ log' = log
       /\ currentState' = currentState
       /\ currentReducer' = currentReducer
       /\ isDispatching' = isDispatching
       /\ ListsAndStateUnchanged
       /\ Len(stack') = Len(stack)

C8_MalformedActionRejected == [][C8_MalformedStep]_vars

\* an action without a type was dispatched to a store that has a listener
\* and a state other than its first
C8_Witness ==
  /\ result.op = "dispatch" /\ result.arg = "aNoType"
  /\ result.status = "InvalidActionError"
  /\ ~isDispatching
  /\ Live # {}
  /\ Len(log) >= 2

\* the notification pass of the activation under the running listener
FailingPass == stack[Len(stack) - 1]

\* a listener invocation ends by failing
ListenerFails == InListener /\ Len(stack') = Len(stack) - 2

\* what the failure of a listener leaves, the state apart
ListenerFailureOutcome ==
  /\ result' = Res(FailingPass.via, FailingPass.given, "ListenerError")
  /\ ~isDispatching /\ ~isDispatching'
  /\ currentState' = currentState
  /\ notified' = notified
  /\ lastFail'.invoked = SubSeq(FailingPass.snap, 1, FailingPass.i + 1)
  /\ lastFail'.at = Len(lastFail'.invoked)

\* C9 as stated: when a listener fails, the failure reaches the caller, the
\* later listeners of the snapshot are not invoked, the guard is released
\* and currentState is the reducer's output for the dispatched action.
C9_AsStated ==
  [][ListenerFails =>
       /\ ListenerFailureOutcome
       /\ currentState' = Apply(FailingPass.red, FailingPass.arg,
                                ActionType(FailingPass.action))]_vars

\* a pass that ran to its end after the failure has invoked the listeners
\* the failed pass skipped, as far as they were still subscribed
SkippedInvokedLater ==
  (lastFail.id # 0 /\ lastPass.id > lastFail.id) =>
    \A k \in (lastFail.at + 1)..Len(lastFail.snap) :
      LET l == lastFail.snap[k]
      IN /\ Count(lastPass.invoked, l) = Registered(lastPass, l)
         /\ (\E h \in lastFail.liveH \cap lastPass.liveH : handles[h].listener = l)
              => Count(lastPass.invoked, l) >= 1

\* C9, amended: when a listener fails, the failure reaches the caller, the
\* later listeners of the snapshot are not invoked, the guard is released
\* and the committed state is kept: it is the reducer's output for the
\* dispatched action unless a listener of the pass has dispatched a further
\* action since. A later dispatch that succeeds invokes the skipped
\* listeners that are still subscribed.
C9_ListenerFailure ==
  [][(ListenerFails =>
        /\ ListenerFailureOutcome
        /\ passCount = FailingPass.id
             => currentState' = Apply(FailingPass.red, FailingPass.arg,
                                      ActionType(FailingPass.action)))
     /\ SkippedInvokedLater']_vars

\* the first of two listeners failed, and the next dispatch has invoked both
C9_Witness ==
  /\ stack = <<>>
  /\ lastFail.id # 0 /\ lastFail.at = 1 /\ Len(lastFail.snap) = 2
  /\ lastPass.id > lastFail.id
  /\ lastPass.invoked = lastFail.snap
  /\ currentState # preloadedState

\* C10: a dispatch that returns normally returns the very action it was
\* given, whatever the reducer made of it and whatever its listeners did.
C10_DispatchReturnsAction ==
  (result.op = "dispatch" /\ result.status = "ok")
    => (result.value = result.arg /\ result.arg \in WellFormedActions)

\* a dispatch has returned whose listener dispatched another action
C10_Witness ==
  /\ stack = <<>>
  /\ result.op = "dispatch" /\ result.status = "ok"
  /\ result.value = "aInc"
  /\ log[Len(log)] = "aDbl"
  /\ notified >= 2

----------------------------------------------------------------------------
(* Construction and replaceReducer *)

\* C11: createStore without an enhancer dispatches the INIT action exactly
\* once before it returns the store: right after construction the state is
\* the reducer's output for the preloaded state (undefined if none) and
\* INIT, the guard is clear and both listener arrays are empty; no store
\* operation is available before.
C11_Construction ==
  /\ ~constructed => ops = 0
  /\ (constructed /\ ops = 0)
       => /\ currentState = Apply(reducer, preloadedState, InitType)
          /\ log = <<"aInit">>
          /\ reducerCalls = 1
          /\ passCount = 1
          /\ notified = 0
          /\ ~isDispatching
          /\ stack = <<>>
          /\ heap[currentListeners] = <<>>
          /\ heap[nextListeners] = <<>>
          /\ currentReducer = reducer

\* a store was constructed without a preloaded state and nothing was called
C11_Witness ==
  /\ constructed /\ ops = 0
  /\ reducer = "count" /\ preloadedState = Undefined
  /\ currentState = 0

\* replaceReducer is called with a value that is not a function
ReplaceRejectedStep ==
  (CallStep /\ result'.op = "replaceReducer" /\ result'.arg \notin Reducers)
    => /\ result'.status = "ConfigurationError"
       /\ currentReducer' = currentReducer
       /\ currentState' = currentState
       /\ reducerCalls' = reducerCalls
       /\ Len(stack') = Len(stack)

\* replaceReducer is called with a reducer, outside any reducer: the reducer
\* is swapped and one dispatch of REPLACE begins, which calls the new reducer
\* with the state as it was
ReplaceAcceptedStep ==
  (CallStep /\ ~isDispatching /\ result'.op = "replaceReducer"
     /\ result'.arg \in Reducers)
    => /\ currentReducer' = result'.arg
       /\ reducerCalls' = reducerCalls + 1
       /\ Len(stack') = Len(stack) + 1
       /\ stack'[Len(stack')].action = "aReplace"
       /\ stack'[Len(stack')].red = result'.arg
       /\ stack'[Len(stack')].arg = currentState
       /\ currentState' = currentState

\* the reducer call of the REPLACE dispatch returns: its output is committed
ReplaceCommitStep ==
  (InReducer /\ Top.via = "replaceReducer" /\ Len(stack') = Len(stack)
     /\ stack'[Len(stack')].pc = "notify")
    => currentState' = Apply(Top.given, Top.arg, ReplaceType)

\* replaceReducer returns: every listener of the snapshot has been invoked
\* once per registration, and nothing is returned
ReplaceReturnStep ==
  (InNotify /\ Top.via = "replaceReducer" /\ Len(stack') = Len(stack) - 1)
    => /\ result'.op = "replaceReducer" /\ result'.status = "ok"
       /\ result'.value = "undefined"
       /\ Top.invoked = Top.snap
       /\ \A l \in ListenerFns : Count(Top.invoked, l) = Registered(Top, l)
       /\ currentReducer = Top.given
       /\ currentState' = currentState

\* every dispatch calls the reducer that was stored last, and only an
\* accepted replaceReducer stores one
ReducerOnlyReplaced ==
  /\ Len(stack') = Len(stack) + 1 /\ stack'[Len(stack')].kind = "dispatch"
       => stack'[Len(stack')].red = currentReducer'
  /\ currentReducer' # currentReducer
       => (CallStep /\ result'.op = "replaceReducer" /\ currentReducer' = result'.arg)

\* C12 as stated: when replaceReducer(next) returns, the state is
\* next(stateBefore, REPLACE).
C12_AsStated ==
  [][/\ ReplaceRejectedStep /\ ReplaceAcceptedStep /\ ReplaceCommitStep
     /\ ReplaceReturnStep /\ ReducerOnlyReplaced
     /\ (InNotify /\ Top.via = "replaceReducer" /\ Len(stack') = Len(stack) - 1)
          => currentState' = Apply(Top.given, Top.arg, ReplaceType)]_vars

\* C12, amended: replaceReducer(next) with a callable next, called outside
\* any reducer, swaps currentReducer to next and performs one dispatch of
\* REPLACE, which commits next(stateBefore, REPLACE) and notifies every
\* subscribed listener once; on return the state is next(stateBefore,
\* REPLACE) unless a listener has dispatched a further action during the
\* pass; every later dispatch applies the reducer stored last; with a
\* non-callable next it fails with ConfigurationError and changes nothing.
C12_ReplaceReducer ==
  [][/\ ReplaceRejectedStep /\ ReplaceAcceptedStep /\ ReplaceCommitStep
     /\ ReplaceReturnStep /\ ReducerOnlyReplaced
     /\ (InNotify /\ Top.via = "replaceReducer" /\ Len(stack') = Len(stack) - 1
           /\ passCount = Top.id)
          => currentState' = Apply(Top.given, Top.arg, ReplaceType)]_vars

\* the reducer count was replaced by strict with a listener subscribed, and
\* a later INC was counted by strict
C12_Witness ==
  /\ stack = <<>>
  /\ reducer = "count" /\ preloadedState = Undefined
  /\ currentReducer = "strict"
  /\ log = <<"aInit", "aReplace", "aInc">>
  /\ currentState = 7
  /\ notified = 2

----------------------------------------------------------------------------
(* The unsubscribe handle *)

\* C13: the first call of an unsubscribe handle made while no reducer runs
\* removes one registration of its listener from nextListeners and nothing
\* else; every later call of the handle returns without error and leaves
\* both listener arrays as they are, also when the same function has been
\* registered again meanwhile.
C13_UnsubscribeStep ==
  (CallStep /\ result'.op = "unsubscribe") =>
    LET h == result'.handle
        l == handles[h].listener
    IN /\ ~handles[h].isSubscribed
            => /\ result'.status = "ok"
               /\ heap' = heap
               /\ nextListeners' = nextListeners
               /\ currentListeners' = currentListeners
               /\ handles' = handles
       /\ (handles[h].isSubscribed /\ ~isDispatching)
            => /\ result'.status = "ok"
               /\ ~handles'[h].isSubscribed
               /\ Len(heap'[nextListeners']) = Len(heap[nextListeners]) - 1
               /\ Count(heap'[nextListeners'], l) = Count(heap[nextListeners], l) - 1
               /\ \A m \in ListenerFns \ {l} :
                    Count(heap'[nextListeners'], m) = Count(heap[nextListeners], m)
               /\ currentListeners' = currentListeners
               /\ heap'[currentListeners] = heap[currentListeners]

C13_UnsubscribeIdempotent == [][C13_UnsubscribeStep]_vars

\* the first handle was called again while a second registration of the
\* same function was live, which is still there
C13_Witness ==
  /\ ops = 4
  /\ result.op = "unsubscribe" /\ result.handle = 1 /\ result.status = "ok"
  /\ Len(handles) = 2
  /\ handles[1].listener = handles[2].listener
  /\ ~handles[1].isSubscribed /\ handles[2].isSubscribed
  /\ heap[nextListeners] = <<handles[2].listener>>

----------------------------------------------------------------------------
(* The state listeners see *)

\* the notification pass that invoked the running listener
CallerPass == stack[Len(stack) - 1]

\* the reducer's output for the action of the dispatch activation F
Committed(F) == Apply(F.red, F.arg, ActionType(F.action))

\* the pass invokes a listener
ListenerInvoked ==
  InNotify /\ Len(stack') = Len(stack) + 1 /\ stack'[Len(stack')].kind = "listener"

\* a listener calls getState
ListenerGetsState == CallStep /\ InListener /\ result'.op = "getState"

\* C14 as stated: whenever a listener of the snapshot is invoked, and
\* whenever it calls getState, getState returns the state the dispatch of
\* that pass committed.
C14_AsStated ==
  [][/\ ListenerInvoked => currentState' = Committed(Top)
     /\ ListenerGetsState
          => (result'.status = "ok" /\ result'.state = Committed(CallerPass))]_vars

\* C14, amended: getState called by a listener succeeds and returns the
\* current state, which is the state the dispatch of that pass committed
\* unless a dispatch made by a listener during the pass has committed a
\* newer one.
C14_ListenerSeesState ==
  [][/\ (ListenerInvoked /\ passCount = Top.id) => currentState' = Committed(Top)
     /\ ListenerGetsState
          => /\ result'.status = "ok"
             /\ result'.state = currentState
             /\ passCount = CallerPass.id => result'.state = Committed(CallerPass)]_vars

\* a listener notified of the first INC called getState and got 1
C14_Witness ==
  /\ InListener
  /\ result.op = "getState" /\ result.status = "ok"
  /\ reducer = "count" /\ preloadedState = Undefined
  /\ log = <<"aInit", "aInc">>
  /\ result.state = 1

\* an outermost dispatch call returns normally
OutermostReturn ==
  InNotify /\ Len(stack) = 1 /\ Top.via = "dispatch" /\ stack' = <<>>

\* C15: when an outermost dispatch returns normally, every listener
\* registered before the call has been invoked at least once since the state
\* became the one the store holds at the return.  The code does not do this:
\* a nested pass that a failing listener aborts, the failure caught by the
\* listener that dispatched, leaves subscribed listeners uninvoked after the
\* last commit, and so does a nested pass whose snapshot was taken after a
\* listener was unsubscribed.
C15_AsStated ==
  [][OutermostReturn =>
       \A h \in Top.liveH : handles[h].listener \in sinceCommit]_vars

----------------------------------------------------------------------------
(* compose *)

\* the composed function has returned
ComposeDone ==
  /\ composed # NotComposed
  /\ callStep >= 1
  /\ composed.kind = "reduced" => callStep = Len(funcs)

\* f_k(f_k+1(...f_n(args))), for k <= n
RECURSIVE NestedFrom(_, _, _)
NestedFrom(fs, k, as) ==
  IF k = Len(fs) THEN ApplyFn(fs[k], as)
  ELSE ApplyFn(fs[k], <<NestedFrom(fs, k + 1, as)>>)

\* C16: compose() returns the identity, compose(f) returns f itself, and
\* compose(f1, ..., fn)(args) is f1(f2(...fn(args))): the functions are
\* called right to left, the rightmost with the full argument list and every
\* other with the one value returned by the function to its right.
C16_Compose ==
  /\ composed # NotComposed
       => /\ Len(funcs) = 0 <=> composed.kind = "identity"
          /\ Len(funcs) = 1 <=> (composed.kind = "given" /\ composed.fn = funcs[1])
  /\ ComposeDone
       => /\ callValue = IF Len(funcs) = 0 THEN composeArgs[1]
                         ELSE NestedFrom(funcs, 1, composeArgs)
          /\ Len(callLog) = Len(funcs)
          /\ \A k \in 1..Len(callLog) :
               /\ callLog[k].fn = funcs[Len(funcs) - k + 1]
               /\ callLog[k].nargs = IF k = 1 THEN Len(composeArgs) ELSE 1

\* compose(dbl, inc, sum)(1, 2) has returned dbl(inc(sum(1, 2))) = 8
C16_Witness ==
  /\ funcs = <<"dbl", "inc", "sum">>
  /\ composeArgs = <<1, 2>>
  /\ ComposeDone
  /\ callValue = 8

----------------------------------------------------------------------------
(* Copy on write *)

\* currentListeners is assigned only when a dispatch whose reducer returned
\* starts its notification phase, and then it is nextListeners
SnapshotStep ==
  currentListeners' # currentListeners
    => /\ InReducer
       /\ stack'[Len(stack')].pc = "notify"
       /\ currentListeners' = nextListeners
       /\ nextListeners' = nextListeners
       /\ heap' = heap

\* an array is written only by an accepted subscribe (called directly, or by
\* the observable at line 305 once observer.next has returned) or
\* unsubscribe, and it is nextListeners: a fresh copy if nextListeners was currentListeners,
\* else the copy made since the last snapshot; no pass iterates it and every
\* other array is as it was
MutationStep ==
  (nextListeners' # nextListeners \/ heap' # heap)
    => /\ CallStep \/ (InObserverNext /\ Len(stack') < Len(stack))
       /\ result'.op \in {"subscribe", "unsubscribe", "observe"}
       /\ result'.status = "ok"
       /\ currentListeners' = currentListeners
       /\ nextListeners' # currentListeners
       /\ IF nextListeners = currentListeners
          THEN nextListeners' = Len(heap) + 1 /\ Len(heap') = Len(heap) + 1
          ELSE nextListeners' = nextListeners /\ Len(heap') = Len(heap)
       /\ \A r \in 1..Len(heap) : r # nextListeners' => heap'[r] = heap[r]
       /\ \A k \in NotifyFrames : stack[k].listeners # nextListeners'

\* the arrays being iterated are intact, and currentListeners is the array
\* of the pass that started last
IteratedIntact ==
  /\ \A k \in NotifyFrames :
       /\ heap[stack[k].listeners] = stack[k].snap
       /\ stack[k].id = passCount => stack[k].listeners = currentListeners
  /\ nextListeners \in 1..Len(heap) /\ currentListeners \in 1..Len(heap)

\* C17: an array that a notification pass in progress, outer or nested, is
\* iterating is never written: subscribe and unsubscribe write only
\* nextListeners, after copying it if it was currentListeners;
\* currentListeners becomes nextListeners only when a dispatch starts its
\* notification phase; the two differ only after a subscribe or unsubscribe
\* since the last snapshot.
C17_CopyOnWrite == [][SnapshotStep /\ MutationStep /\ IteratedIntact']_vars

\* a listener subscribed another and dispatched: the nested pass iterates
\* the copy with both listeners, the outer pass its own array with one
C17_Witness ==
  /\ Len(stack) >= 3
  /\ stack[1].pc = "notify" /\ stack[3].pc = "notify"
  /\ stack[1].listeners # stack[3].listeners
  /\ heap[stack[1].listeners] = stack[1].snap
  /\ Len(stack[1].snap) = 1
  /\ Len(heap[stack[3].listeners]) = 2

----------------------------------------------------------------------------
(* Dispatch from a listener *)

\* a listener calls dispatch with a well-formed action: it is accepted and
\* the reducer is called, in a new activation above the listener
NestedAcceptedStep ==
  (CallStep /\ InListener /\ result'.op = "dispatch"
     /\ result'.arg \in WellFormedActions)
    => /\ result'.status = "pending"
       /\ reducerCalls' = reducerCalls + 1
       /\ Len(stack') = Len(stack) + 1
       /\ stack'[Len(stack')].pc = "reduce"
       /\ stack'[Len(stack')].action = result'.arg

\* a dispatch starts its notification phase: it iterates the array that is
\* nextListeners at that moment
PassStartStep ==
  (InReducer /\ Len(stack') = Len(stack) /\ stack'[Len(stack')].pc = "notify")
    => /\ stack'[Len(stack')].listeners = nextListeners
       /\ stack'[Len(stack')].snap = heap[nextListeners]
       /\ stack'[Len(stack')].i = 0
       /\ currentState' = Committed(Top)

\* a pass under a running listener waits: while activations are above it,
\* its array, its position and what it has invoked stay as they are
OuterPassWaits ==
  \A k \in 1..Len(stack) :
    (stack[k].pc = "notify" /\ k < Len(stack) /\ k < Len(stack'))
      => /\ stack'[k].listeners = stack[k].listeners
         /\ stack'[k].i = stack[k].i
         /\ stack'[k].invoked = stack[k].invoked
         /\ stack'[k].snap = stack[k].snap

\* a pass invokes a listener only when nothing is above it, and the
\* listener is the one at its position in its own snapshot; a dispatch
\* returns normally only after its pass has invoked its whole snapshot;
\* when a listener returns, its pass moves on by one
LoopStep ==
  /\ (Len(stack') = Len(stack) + 1 /\ stack'[Len(stack')].kind = "listener")
       => /\ InNotify
          /\ Top.i < Len(Top.snap)
          /\ stack'[Len(stack')].fn = Top.snap[Top.i + 1]
          /\ Len(Top.invoked) = Top.i
  /\ (InNotify /\ Len(stack') = Len(stack) - 1)
       => (Top.invoked = Top.snap /\ Top.i = Len(Top.snap) /\ result'.status = "ok")
  /\ (InListener /\ Len(stack') = Len(stack) - 1)
       => /\ stack'[Len(stack')].i = CallerPass.i + 1
          /\ stack'[Len(stack')].listeners = CallerPass.listeners

\* C18: a dispatch called by a listener is accepted (the guard is clear
\* whenever a listener runs) and runs its reducer call, its commit and its
\* own notification pass over the nextListeners of that moment to the end
\* before the outer loop invokes its next listener; the outer pass then
\* goes on over its own snapshot from the position after the listener that
\* dispatched.
C18_NestedDispatch ==
  [][/\ NestedAcceptedStep /\ PassStartStep /\ OuterPassWaits /\ LoopStep
     /\ (InListener' => ~isDispatching')]_vars

\* the outer pass invokes its second
\* listener after a dispatch made by the first has completed its own pass
C18_Witness ==
  /\ Len(stack) = 2
  /\ stack[1].pc = "notify" /\ stack[1].i = 1
  /\ Len(stack[1].snap) = 2
  /\ stack[2].kind = "listener" /\ stack[2].fn = stack[1].snap[2]
  /\ lastPass.id > stack[1].id
  /\ lastPass.invoked = lastPass.snap /\ Len(lastPass.snap) = 2
  /\ "listenerFailed" \notin flags

----------------------------------------------------------------------------
(* Registration order *)

\* the listeners of the first k registrations that are still subscribed, in
\* registration order
RECURSIVE LiveInOrder(_)
LiveInOrder(k) ==
  IF k = 0 THEN <<>>
  ELSE IF handles[k].isSubscribed
       THEN Append(LiveInOrder(k - 1), handles[k].listener)
       ELSE LiveInOrder(k - 1)

\* C19: nextListeners holds exactly the listeners of the registrations
\* whose unsubscribe handle has not been called successfully, in
\* registration order, also when a function is registered more than once.
C19_RegistrationOrder == heap[nextListeners] = LiveInOrder(Len(handles))

----------------------------------------------------------------------------
(* replaceReducer inside a reducer *)

\* a reducer calls replaceReducer with a reducer: the call fails in its
\* REPLACE dispatch, after the reducer was stored
ReplaceInReducerStep ==
  (CallStep /\ isDispatching /\ result'.op = "replaceReducer"
     /\ result'.arg \in Reducers)
    => /\ result'.status = "ReentrancyError"
       /\ currentReducer' = result'.arg
       /\ currentState' = currentState
       /\ reducerCalls' = reducerCalls
       /\ log' = log
       /\ passCount' = passCount
       /\ isDispatching'
       /\ Len(stack') = Len(stack)
       /\ stack'[Len(stack')].red = Top.red
       /\ stack'[Len(stack')].action = Top.action

\* the dispatch that is executing commits the output of the reducer it
\* called, whatever reducer is stored by then
CommitOfCalledReducer ==
  (InReducer /\ Len(stack') = Len(stack) /\ stack'[Len(stack')].pc = "notify")
    => currentState' = Apply(Top.red, Top.arg, ActionType(Top.action))

\* C20: replaceReducer(next), called with a callable next while a reducer
\* is executing, fails with ReentrancyError from its REPLACE dispatch, but
\* next is stored already: no REPLACE action is applied, the executing
\* dispatch commits the output of the old reducer, and every later dispatch
\* applies next.
C20_ReplaceInReducer ==
  [][ReplaceInReducerStep /\ CommitOfCalledReducer /\ ReducerOnlyReplaced]_vars

\* the reducer count replaced itself by strict while it handled INC: that
\* INC was counted by count, the next one by strict, and no REPLACE action
\* was dispatched
C20_Witness ==
  /\ stack = <<>>
  /\ reducer = "count" /\ preloadedState = Undefined
  /\ currentReducer = "strict"
  /\ log = <<"aInit", "aInc", "aInc">>
  /\ currentState = 3

====
